---- MODULE Spec2Model ----
(***************************************************************************)
(* A model of moosez/system.py (OutputManager, check_device) and of the    *)
(* registry lookups of moosez/resources.py.                                *)
(*                                                                         *)
(* One Python process is modelled: its OutputManager objects, the          *)
(* process-wide logger 'moosez-v<VERSION>' of the logging module, the root *)
(* logger, sys.stdout / sys.stderr, the files of the file system and the   *)
(* clock that configure_logging reads.                                     *)
(***************************************************************************)
EXTENDS Integers, Sequences, FiniteSets, TLC

VARIABLES
    session,     \* the OutputManager objects: s -> the object's fields, its spinner among them
    called,      \* history: s -> whether configure_logging has been called on s
    proclog,     \* logging.getLogger('moosez-v<VERSION>'): level, propagate, handlers
    fs,          \* the file system: path -> number of lines in the file
    clock,       \* the wall clock, in ticks
    stdout,      \* sys.stdout
    stderr,      \* sys.stderr
    scopes,      \* the manage_nnUNet_output scopes that are open, innermost last
    observed,    \* history: for each open scope, sys.stdout and sys.stderr at its entry,
                 \* and whether configure_logging had been called on its session
    registry,    \* moosez.resources: AVAILABLE_MODELS and MODELS
    rootlog,     \* the root logger of the logging module: its handlers
    ret          \* the last call: operation, arguments, outcome

vars == <<session, called, proclog, fs, clock, stdout, stderr, scopes, observed,
          registry, rootlog, ret>>

\* What no operation of OutputManager touches.
lib == <<registry, rootlog>>

----------------------------------------------------------------------------
(* Bounds of the model. *)

MaxClock == 2        \* the clock runs from 0 to MaxClock
MaxLines == 2        \* lines written to files and to the terminal, in total
MaxDepth == 2        \* manage_nnUNet_output scopes open at once

Sessions == {"s1", "s2"}

----------------------------------------------------------------------------
(* Paths, files and streams. *)

\* strftime('%H-%M-%d-%m-%Y') resolves the clock to the minute.
TicksPerMinute == 2

timestamp(t) == t \div TicksPerMinute

\* os.getcwd()
cwd == "cwd"

\* The directories that exist; a file cannot be opened in any other.
ExistingDirs == {"cwd", "out", "/dev"}

\* The values of the log_file_directory argument.
LogDirs == {"None", "out", "missing"}

\* os.path.join(directory, f'moosez-v{VERSION}_{kind}{timestamp}.log')
path_join(dir, kind, ts) == [dir |-> dir, kind |-> kind, ts |-> ts]

devnull == [dir |-> "/dev", kind |-> "null", ts |-> 0]
tty_out == [dir |-> "/dev", kind |-> "stdout", ts |-> 0]
tty_err == [dir |-> "/dev", kind |-> "stderr", ts |-> 0]

\* An open file object: the path it was opened on and the mode.
handle(path, mode) == [path |-> path, mode |-> mode]

\* sys.__stdout__ and sys.__stderr__
console_stdout == handle(tty_out, "w")
console_stderr == handle(tty_err, "w")

\* Whether open(path, mode) succeeds: the directory must exist.
can_open(path) == path.dir \in ExistingDirs

\* The file system after open(path, mode): 'w' creates or truncates, 'a' creates or keeps.
open_file(files, path, mode) ==
    IF path \notin DOMAIN files
    THEN [p \in DOMAIN files \cup {path} |-> IF p = path THEN 0 ELSE files[p]]
    ELSE IF mode = "w" /\ path.dir # "/dev"
         THEN [files EXCEPT ![path] = 0]
         ELSE files

\* The file system after one line is written through handle h; os.devnull discards.
write_line(files, h) ==
    IF h.path = devnull THEN files ELSE [files EXCEPT ![h.path] = @ + 1]

RECURSIVE sum_lines(_, _)
sum_lines(files, paths) ==
    IF paths = {} THEN 0
    ELSE LET p == CHOOSE q \in paths : TRUE
         IN files[p] + sum_lines(files, paths \ {p})

total_lines == sum_lines(fs, DOMAIN fs)

\* Room for n more lines within the bound.
room(n) == total_lines + n <= MaxLines

----------------------------------------------------------------------------
(* OutputManager: construction, logging. *)

LoggerName == "moosez-vVERSION"

\* Halo(spinner='dots', enabled=enabled): no text, not spinning.
halo(enabled) == [enabled |-> enabled, text |-> "", running |-> FALSE]

unmade == [made |-> FALSE, verbose_console |-> FALSE, verbose_log |-> FALSE,
           logger |-> "None", nnunet_log_filename |-> devnull,
           spinner |-> halo(FALSE)]

\* OutputManager.__init__
OutputManager(s, verbose_console, verbose_log) ==
    /\ ~session[s].made
    /\ session' = [session EXCEPT ![s] =
            [made |-> TRUE, verbose_console |-> verbose_console,
             verbose_log |-> verbose_log, logger |-> "None",
             nnunet_log_filename |-> devnull,
             spinner |-> halo(verbose_console)]]
    /\ ret' = [op |-> "__init__", session |-> s, outcome |-> "return"]
    /\ UNCHANGED <<called, proclog, fs, clock, stdout, stderr, scopes, observed>>
    /\ UNCHANGED lib

\* The early return of configure_logging.
configure_returns_early(s) == ~session[s].verbose_log \/ session[s].logger # "None"

\* configure_logging without the look at the handlers the logger already has.
has_file_handler_unchecked(lg) == FALSE

\* any(isinstance(handler, logging.FileHandler) for handler in self.logger.handlers)
has_file_handler(lg) == \E i \in 1..Len(lg.handlers) : lg.handlers[i].kind = "FileHandler"

\* logging.FileHandler(log_filename, mode='w') with its level and formatter set.
file_handler(log_filename) ==
    [kind |-> "FileHandler", stream |-> handle(log_filename, "w"), level |-> "INFO"]

\* OutputManager.configure_logging
configure_logging(s, log_file_directory) ==
    LET dir == IF log_file_directory = "None" THEN cwd ELSE log_file_directory
        ts == timestamp(clock)
        nnunet == path_join(dir, "nnUNet", ts)
        log_filename == path_join(dir, "log", ts)
        lg == [proclog EXCEPT !.level = "INFO", !.propagate = FALSE]
    IN
    /\ session[s].made
    /\ called' = [called EXCEPT ![s] = TRUE]
    /\ IF configure_returns_early(s)
       THEN /\ ret' = [op |-> "configure_logging", session |-> s, outcome |-> "return",
                       again |-> called[s]]
            /\ UNCHANGED <<session, proclog, fs>>
       ELSE /\ session' = [session EXCEPT ![s].nnunet_log_filename = nnunet,
                                          ![s].logger = LoggerName]
            /\ IF has_file_handler(lg)
               THEN /\ proclog' = lg
                    /\ fs' = fs
                    /\ ret' = [op |-> "configure_logging", session |-> s,
                               outcome |-> "return", again |-> called[s]]
               ELSE IF can_open(log_filename)
                    THEN /\ proclog' = [lg EXCEPT !.handlers =
                                            Append(@, file_handler(log_filename))]
                         /\ fs' = open_file(fs, log_filename, "w")
                         /\ ret' = [op |-> "configure_logging", session |-> s,
                                    outcome |-> "return", again |-> called[s]]
                    ELSE /\ proclog' = lg
                         /\ fs' = fs
                         /\ ret' = [op |-> "configure_logging", session |-> s,
                                    outcome |-> "raise", error |-> "FileNotFoundError",
                                    again |-> called[s]]
    /\ UNCHANGED <<clock, stdout, stderr, scopes, observed>>
    /\ UNCHANGED lib

\* log_update without the test of self.logger.
log_update_logs_unconfigured(s) == session[s].verbose_log

\* Whether log_update passes the text to the logger.
log_update_logs(s) == session[s].verbose_log /\ session[s].logger # "None"

RECURSIVE emit_record(_, _, _)
\* Logger.info: every handler of the logger writes one record to its stream.
emit_record(files, handlers, i) ==
    IF i > Len(handlers) THEN files
    ELSE emit_record(write_line(files, handlers[i].stream), handlers, i + 1)

\* Logger.info(text) on the process-wide logger: INFO passes a logger at level INFO;
\* with no handler the record is dropped (propagate is off, lastResort takes WARNING up).
logger_info(files, lg) ==
    IF lg.level = "INFO" THEN emit_record(files, lg.handlers, 1) ELSE files

\* OutputManager.log_update
log_update(s) ==
    /\ session[s].made
    /\ fs' = IF log_update_logs(s) THEN logger_info(fs, proclog) ELSE fs
    /\ log_update_logs(s) => room(Len(proclog.handlers))
    /\ ret' = [op |-> "log_update", session |-> s, outcome |-> "return"]
    /\ UNCHANGED <<session, called, proclog, clock, stdout, stderr, scopes, observed>>
    /\ UNCHANGED lib

\* Time passes.
Tick ==
    /\ clock < MaxClock
    /\ clock' = clock + 1
    /\ ret' = [op |-> "tick", session |-> "none", outcome |-> "return"]
    /\ UNCHANGED <<session, called, proclog, fs, stdout, stderr, scopes, observed>>
    /\ UNCHANGED lib

----------------------------------------------------------------------------
(* OutputManager.manage_nnUNet_output: the scope and the block it wraps. *)

\* target_path of manage_nnUNet_output
target_path(s) ==
    IF session[s].verbose_log THEN session[s].nnunet_log_filename ELSE devnull

\* The redirect file opened for writing in both modes.
target_mode_truncating(s) == "w"

\* mode of manage_nnUNet_output
target_mode(s) == IF session[s].verbose_log THEN "a" ELSE "w"

\* Entering the with statement: open(target_path, mode), redirect_stdout(target),
\* redirect_stderr(target), then the block starts. A failed open raises before
\* any stream is touched and the block never runs.
manage_nnUNet_output(s) ==
    LET path == target_path(s)
        mode == target_mode(s)
        target == handle(path, mode)
    IN
    /\ session[s].made
    /\ Len(scopes) < MaxDepth
    /\ IF can_open(path)
       THEN /\ fs' = open_file(fs, path, mode)
            /\ scopes' = Append(scopes, [session |-> s, target |-> target,
                                         old_stdout |-> stdout, old_stderr |-> stderr])
            /\ observed' = Append(observed, [stdout |-> stdout, stderr |-> stderr,
                                             configured |-> called[s]])
            /\ stdout' = target
            /\ stderr' = target
            /\ ret' = [op |-> "enter", session |-> s, outcome |-> "return"]
       ELSE /\ ret' = [op |-> "enter", session |-> s, outcome |-> "raise",
                       error |-> "FileNotFoundError"]
            /\ UNCHANGED <<fs, scopes, observed, stdout, stderr>>
    /\ UNCHANGED <<session, called, proclog, clock>>
    /\ UNCHANGED lib

\* The wrapped block prints a line to sys.stdout or to sys.stderr.
block_print(which) ==
    /\ Len(scopes) > 0
    /\ room(1)
    /\ fs' = write_line(fs, IF which = "stdout" THEN stdout ELSE stderr)
    /\ ret' = [op |-> "print", session |-> scopes[Len(scopes)].session,
               outcome |-> "return"]
    /\ UNCHANGED <<session, called, proclog, clock, stdout, stderr, scopes, observed>>
    /\ UNCHANGED lib

\* The wrapped block rebinds a stream itself (sys.stdout = sys.__stdout__).
block_rebind(which) ==
    /\ Len(scopes) > 0
    /\ IF which = "stdout"
       THEN stdout' = console_stdout /\ stderr' = stderr
       ELSE stderr' = console_stderr /\ stdout' = stdout
    /\ ret' = [op |-> "rebind", session |-> scopes[Len(scopes)].session,
               outcome |-> "return"]
    /\ UNCHANGED <<session, called, proclog, fs, clock, scopes, observed>>
    /\ UNCHANGED lib

NoError == "None"

\* What the block can raise.
BlockErrors == {"RuntimeError", "KeyboardInterrupt"}

\* The streams put back after the block, with nothing to do so when it raises.
scope_exit_unguarded(frame, exc) ==
    IF exc = NoError
    THEN [stderr |-> frame.old_stderr, stdout |-> frame.old_stdout, error |-> exc]
    ELSE [stderr |-> frame.target, stdout |-> frame.target, error |-> exc]

\* redirect_stderr.__exit__, redirect_stdout.__exit__, the file's __exit__ and the
\* generator-based context manager's __exit__, for a block that ended with exc
\* (NoError: it returned): the streams afterwards and the error that leaves the scope.
scope_exit(frame, exc) ==
    [stderr |-> frame.old_stderr, stdout |-> frame.old_stdout, error |-> exc]

\* Leaving the with statement, the block having returned (exc = NoError) or raised exc.
leave_scope(exc) ==
    LET frame == scopes[Len(scopes)]
        out == scope_exit(frame, exc)
    IN
    /\ Len(scopes) > 0
    /\ stdout' = out.stdout
    /\ stderr' = out.stderr
    /\ scopes' = SubSeq(scopes, 1, Len(scopes) - 1)
    /\ observed' = SubSeq(observed, 1, Len(observed) - 1)
    /\ ret' = [op |-> "leave", session |-> frame.session,
               outcome |-> IF out.error = NoError THEN "return" ELSE "raise",
               error |-> out.error, raised |-> exc,
               before |-> observed[Len(observed)], target |-> frame.target]
    /\ UNCHANGED <<session, called, proclog, fs, clock>>
    /\ UNCHANGED lib

----------------------------------------------------------------------------
(* OutputManager: the console, the banners, the tables. *)

MaxPrinted == 6      \* lines the console and print() write, in total

\* Room for n more console lines within the bound.
room_printed(n) == total_lines + n <= MaxPrinted

\* What console_update is given: a str (with or without ANSI codes) or a renderable.
Contents == {[type |-> "str", ansi |-> FALSE], [type |-> "str", ansi |-> TRUE],
             [type |-> "Table", ansi |-> FALSE]}

\* Text.from_ansi(text) for a str; a renderable is passed on as it is.
renderable(text) ==
    IF text.type = "str" THEN [type |-> "Text", ansi |-> FALSE, styled |-> text.ansi]
    ELSE [type |-> text.type, ansi |-> text.ansi, styled |-> FALSE]

\* A console that is never quiet.
console_print_loud(files, om, x) == write_line(files, stdout)

\* Console(quiet=not verbose_console).print(x): a quiet console writes nothing; the
\* console was made with no file of its own, so it writes to what sys.stdout is now.
console_print(files, om, x) ==
    IF ~om.verbose_console THEN files ELSE write_line(files, stdout)

RECURSIVE console_updates(_, _, _)
\* OutputManager.console_update, once for each text of texts, first to last.
console_updates(files, om, texts) ==
    IF texts = <<>> THEN files
    ELSE console_updates(console_print(files, om, renderable(Head(texts))), om, Tail(texts))

\* The lines a call of n console_update calls writes on manager om.
lines_of(om, n) == IF om.verbose_console THEN n ELSE 0

plain == [type |-> "str", ansi |-> FALSE]
violet == [type |-> "str", ansi |-> TRUE]

\* The texts of display_logo, display_authors, display_doi.
logo_texts == <<plain, violet, violet, plain>>
authors_texts == <<violet, plain, plain, plain>>
doi_texts == <<violet, plain, plain, plain, plain, plain>>

\* A call on session s that passes texts to console_update, one by one.
console_call(op, s, texts) ==
    /\ session[s].made
    /\ room_printed(lines_of(session[s], Len(texts)))
    /\ fs' = console_updates(fs, session[s], texts)
    /\ ret' = [op |-> op, session |-> s, outcome |-> "return",
               console_updates |-> Len(texts),
               written |-> sum_lines(fs', DOMAIN fs') - total_lines]
    /\ UNCHANGED <<session, called, proclog, clock, stdout, stderr, scopes, observed>>
    /\ UNCHANGED lib

\* OutputManager.console_update
console_update(s, text) == console_call("console_update", s, <<text>>)

\* OutputManager.display_logo
display_logo(s) == console_call("display_logo", s, logo_texts)

\* OutputManager.display_authors
display_authors(s) == console_call("display_authors", s, authors_texts)

\* OutputManager.display_doi
display_doi(s) == console_call("display_doi", s, doi_texts)

MaxCols == 2         \* headers and styles given to create_table

HeaderNames == {"a", "b"}
StyleNames == {"red", "None"}

RECURSIVE seqs_upto(_, _)
\* The sequences over S of length at most n.
seqs_upto(S, n) ==
    IF n = 0 THEN {<<>>}
    ELSE LET shorter == seqs_upto(S, n - 1)
         IN shorter \cup {Append(q, x) : q \in shorter, x \in S}

\* The styles argument: not given (None), or a list.
no_styles == [given |-> FALSE, list |-> <<>>]
StylesArgs == {no_styles} \cup {[given |-> TRUE, list |-> l] : l \in seqs_upto(StyleNames, MaxCols)}

min(a, b) == IF a < b THEN a ELSE b

\* zip(header, styles): as long as the shorter of the two.
zip(header, styles) ==
    [i \in 1..min(Len(header), Len(styles)) |-> [header |-> header[i], style |-> styles[i]]]

\* The table create_table returns: its columns, first to last.
create_table_result(header, styles) ==
    LET given == IF styles.given THEN styles.list ELSE [i \in 1..Len(header) |-> "None"]
    IN [outcome |-> "return", columns |-> zip(header, given)]

\* OutputManager.create_table
create_table(s, header, styles) ==
    LET r == create_table_result(header, styles)
    IN
    /\ session[s].made
    /\ ret' = [op |-> "create_table", session |-> s, outcome |-> r.outcome,
               header |-> header, styles |-> styles, columns |-> r.columns]
    /\ UNCHANGED <<session, called, proclog, fs, clock, stdout, stderr, scopes, observed>>
    /\ UNCHANGED lib

----------------------------------------------------------------------------
(* OutputManager: the spinner. *)

\* The text arguments of the spinner operations; "None" is the default, no text.
SpinnerTexts == {"None", "loading", "done"}

\* The spinner operations with the test of self.spinner.enabled left out.
spinner_guard_missing(s) == TRUE

\* if self.spinner.enabled
spinner_guard(s) == session[s].spinner.enabled

\* A spinner operation on session s: the spinner afterwards and the lines it writes
\* where the guard lets the call through, nothing at all where it does not.
spinner_call(op, s, text, after, lines) ==
    /\ session[s].made
    /\ IF spinner_guard(s)
       THEN /\ room(lines)
            /\ session' = [session EXCEPT ![s].spinner = after]
            /\ fs' = IF lines > 0 THEN write_line(fs, console_stdout) ELSE fs
       ELSE UNCHANGED <<session, fs>>
    /\ ret' = [op |-> op, session |-> s, outcome |-> "return", text |-> text,
               before |-> session[s].spinner]
    /\ UNCHANGED <<called, proclog, clock, stdout, stderr, scopes, observed>>
    /\ UNCHANGED lib

\* OutputManager.spinner_update: self.spinner.text = text
spinner_update(s, text) ==
    spinner_call("spinner_update", s, text, [session[s].spinner EXCEPT !.text = text], 0)

\* OutputManager.spinner_stop: self.spinner.stop()
spinner_stop(s) ==
    spinner_call("spinner_stop", s, "None", [session[s].spinner EXCEPT !.running = FALSE], 0)

\* OutputManager.spinner_start: self.spinner.start(text) takes the text when one is
\* given and starts spinning.
spinner_start(s, text) ==
    spinner_call("spinner_start", s, text,
                 [session[s].spinner EXCEPT !.text = IF text = "None" THEN @ ELSE text,
                                            !.running = TRUE], 0)

\* OutputManager.spinner_succeed: self.spinner.succeed(text) stops the spinner and
\* leaves one line, the mark and the text, on the terminal.
spinner_succeed(s, text) ==
    spinner_call("spinner_succeed", s, text,
                 [session[s].spinner EXCEPT !.running = FALSE], 1)

----------------------------------------------------------------------------
(* check_device, of moosez/system.py and of moosez/resources.py. *)

MaxDevices == 2      \* GPUs torch.cuda.device_count() reports

\* What torch reports: CUDA with its devices, the two MPS flags.
Envs == {[cuda_available |-> c, device_count |-> n, mps_available |-> a, mps_built |-> b] :
            c \in BOOLEAN, n \in 0..MaxDevices, a \in BOOLEAN, b \in BOOLEAN}

\* Python's None, and a value that is there.
None == <<>>
Some(x) == <<x>>

\* check_device with the MPS test ahead of the CUDA test.
check_device_result_mps_first(env) ==
    IF env.mps_available
    THEN [backend |-> "mps", device_count |-> None,
          messages |-> <<"mps_available">>,
          consulted |-> <<"mps.is_available">>]
    ELSE IF env.cuda_available
    THEN [backend |-> "cuda", device_count |-> Some(env.device_count),
          messages |-> <<"cuda_available">>,
          consulted |-> <<"mps.is_available", "cuda.is_available", "cuda.device_count">>]
    ELSE [backend |-> "cpu", device_count |-> None,
          messages |-> <<"cuda_mps_not_available">>,
          consulted |-> <<"mps.is_available", "cuda.is_available">>]

\* check_device with the build test ahead of the availability test and MPS taken
\* whenever it is built.
check_device_result_built_is_mps(env) ==
    IF env.cuda_available
    THEN [backend |-> "cuda", device_count |-> Some(env.device_count),
          messages |-> <<"cuda_available">>,
          consulted |-> <<"cuda.is_available", "cuda.device_count">>]
    ELSE IF env.mps_built
    THEN [backend |-> "mps", device_count |-> None,
          messages |-> <<"mps_available">>,
          consulted |-> <<"cuda.is_available", "mps.is_built">>]
    ELSE [backend |-> "cpu", device_count |-> None,
          messages |-> <<"mps_not_built">>,
          consulted |-> <<"cuda.is_available", "mps.is_built">>]

\* check_device with a last branch that reports nothing.
check_device_result_silent_else(env) ==
    IF env.cuda_available
    THEN [backend |-> "cuda", device_count |-> Some(env.device_count),
          messages |-> <<"cuda_available">>,
          consulted |-> <<"cuda.is_available", "cuda.device_count">>]
    ELSE IF env.mps_available
    THEN [backend |-> "mps", device_count |-> None,
          messages |-> <<"mps_available">>,
          consulted |-> <<"cuda.is_available", "mps.is_available">>]
    ELSE IF ~env.mps_built
    THEN [backend |-> "cpu", device_count |-> None,
          messages |-> <<"mps_not_built">>,
          consulted |-> <<"cuda.is_available", "mps.is_available", "mps.is_built">>]
    ELSE [backend |-> "cpu", device_count |-> None,
          messages |-> <<>>,
          consulted |-> <<"cuda.is_available", "mps.is_available", "mps.is_built">>]

\* check_device with the texts of its two CPU branches exchanged.
check_device_result_notes_swapped(env) ==
    IF env.cuda_available
    THEN [backend |-> "cuda", device_count |-> Some(env.device_count),
          messages |-> <<"cuda_available">>,
          consulted |-> <<"cuda.is_available", "cuda.device_count">>]
    ELSE IF env.mps_available
    THEN [backend |-> "mps", device_count |-> None,
          messages |-> <<"mps_available">>,
          consulted |-> <<"cuda.is_available", "mps.is_available">>]
    ELSE IF ~env.mps_built
    THEN [backend |-> "cpu", device_count |-> None,
          messages |-> <<"cuda_mps_not_available">>,
          consulted |-> <<"cuda.is_available", "mps.is_available", "mps.is_built">>]
    ELSE [backend |-> "cpu", device_count |-> None,
          messages |-> <<"mps_not_built">>,
          consulted |-> <<"cuda.is_available", "mps.is_available", "mps.is_built">>]

\* The branches of check_device, first match first: the device returned, the status
\* line, and the torch calls made on the way.
check_device_result(env) ==
    IF env.cuda_available
    THEN [backend |-> "cuda", device_count |-> Some(env.device_count),
          messages |-> <<"cuda_available">>,
          consulted |-> <<"cuda.is_available", "cuda.device_count">>]
    ELSE IF env.mps_available
    THEN [backend |-> "mps", device_count |-> None,
          messages |-> <<"mps_available">>,
          consulted |-> <<"cuda.is_available", "mps.is_available">>]
    ELSE IF ~env.mps_built
    THEN [backend |-> "cpu", device_count |-> None,
          messages |-> <<"mps_not_built">>,
          consulted |-> <<"cuda.is_available", "mps.is_available", "mps.is_built">>]
    ELSE [backend |-> "cpu", device_count |-> None,
          messages |-> <<"cuda_mps_not_available">>,
          consulted |-> <<"cuda.is_available", "mps.is_available", "mps.is_built">>]

\* The default of check_device's output_manager parameter: OutputManager(False, False).
default_output_manager ==
    [made |-> TRUE, verbose_console |-> FALSE, verbose_log |-> FALSE,
     logger |-> "None", nnunet_log_filename |-> devnull,
     spinner |-> halo(FALSE)]

DefaultManager == "default"

manager(s) == IF s = DefaultManager THEN default_output_manager ELSE session[s]

\* check_device(output_manager) of moosez/system.py; s = DefaultManager: check_device().
check_device(s, env) ==
    LET r == check_device_result(env)
        om == manager(s)
        texts == [i \in 1..Len(r.messages) |-> plain]
    IN
    /\ om.made
    /\ room_printed(lines_of(om, Len(texts)))
    /\ fs' = console_updates(fs, om, texts)
    /\ ret' = [op |-> "check_device", session |-> s, outcome |-> "return", env |-> env,
               backend |-> r.backend, device_count |-> r.device_count,
               messages |-> r.messages, consulted |-> r.consulted,
               console_updates |-> Len(texts),
               written |-> sum_lines(fs', DOMAIN fs') - total_lines]
    /\ UNCHANGED <<session, called, proclog, clock, stdout, stderr, scopes, observed>>
    /\ UNCHANGED lib

\* check_device() of moosez/resources.py: the same branches, the status line goes to
\* print() and the backend alone is returned.
resources_check_device(env) ==
    LET r == check_device_result(env)
    IN
    /\ room_printed(1)
    /\ fs' = write_line(fs, stdout)
    /\ ret' = [op |-> "resources.check_device", session |-> "none", outcome |-> "return",
               env |-> env, backend |-> r.backend, device_count |-> None,
               messages |-> r.messages, consulted |-> r.consulted,
               console_updates |-> 0,
               written |-> sum_lines(fs', DOMAIN fs') - total_lines]
    /\ UNCHANGED <<session, called, proclog, clock, stdout, stderr, scopes, observed>>
    /\ UNCHANGED lib

----------------------------------------------------------------------------
(* The registry of moosez/resources.py and its lookups. *)

\* AVAILABLE_MODELS
AVAILABLE_MODELS ==
    <<"clin_ct_lungs",
      "clin_ct_organs",
      "clin_ct_body",
      "preclin_mr_all",
      "clin_ct_ribs",
      "clin_ct_muscles",
      "clin_ct_peripheral_bones",
      "clin_ct_fat",
      "clin_ct_vertebrae",
      "clin_ct_cardiac",
      "clin_ct_digestive",
      "preclin_ct_legs",
      "clin_ct_all_bones_v1",
      "clin_ct_PUMA",
      "clin_pt_fdg_brain_v1",
      "clin_ct_ALPACA",
      "clin_ct_PUMA4">>

\* MODELS: for each model its directory (the entry's other fields are left out).
MODELS ==
    [name \in {AVAILABLE_MODELS[i] : i \in 1..Len(AVAILABLE_MODELS)} |->
        CASE name = "clin_ct_lungs" -> [directory |-> "Dataset333_HMS3dlungs"]
          [] name = "clin_ct_organs" -> [directory |-> "Dataset123_Organs"]
          [] name = "preclin_mr_all" -> [directory |-> "Dataset234_minimoose"]
          [] name = "clin_ct_body" -> [directory |-> "Dataset001_body"]
          [] name = "clin_ct_ribs" -> [directory |-> "Dataset444_Ribs"]
          [] name = "clin_ct_muscles" -> [directory |-> "Dataset555_Muscles"]
          [] name = "clin_ct_peripheral_bones" -> [directory |-> "Dataset666_Peripheral-Bones"]
          [] name = "clin_ct_fat" -> [directory |-> "Dataset777_Fat"]
          [] name = "clin_ct_vertebrae" -> [directory |-> "Dataset111_Vertebrae"]
          [] name = "clin_ct_cardiac" -> [directory |-> "Dataset888_Cardiac"]
          [] name = "clin_ct_digestive" -> [directory |-> "Dataset999_Digestive"]
          [] name = "preclin_ct_legs" -> [directory |-> "Dataset256_Preclin_leg_muscles"]
          [] name = "clin_ct_all_bones_v1" -> [directory |-> "Dataset600_Original_bones"]
          [] name = "clin_ct_PUMA" -> [directory |-> "Dataset002_PUMA"]
          [] name = "clin_pt_fdg_brain_v1" -> [directory |-> "Dataset100_Brain_v1"]
          [] name = "clin_ct_ALPACA" -> [directory |-> "Dataset080_Alpaca"]
          [] name = "clin_ct_PUMA4" -> [directory |-> "Dataset003_PUMA4"]]

\* A Python dict with str keys: the set of its items.
modality(imaging, mod, tissue) ==
    {<<"Imaging", imaging>>, <<"Modality", mod>>, <<"Tissue of interest", tissue>>}

\* The keys of the dict models of expected_modality.
modality_names ==
    {"clin_ct_lungs",
     "clin_ct_organs",
     "clin_ct_body",
     "preclin_mr_all",
     "clin_ct_ribs",
     "clin_ct_muscles",
     "clin_ct_peripheral_bones",
     "clin_ct_fat",
     "clin_ct_vertebrae",
     "clin_ct_cardiac",
     "clin_ct_digestive",
     "preclin_ct_legs",
     "clin_ct_all_bones_v1",
     "clin_ct_PUMA",
     "clin_pt_fdg_brain_v1",
     "clin_ct_ALPACA",
     "clin_ct_PUMA4"}

\* The dict models of expected_modality.
modality_models ==
    [name \in modality_names |->
        CASE name = "clin_ct_lungs" -> modality("Clinical", "CT", "Lungs")
          [] name = "clin_ct_organs" -> modality("Clinical", "CT", "Organs")
          [] name = "clin_ct_body" -> modality("Clinical", "CT", "Body, Arms, legs, head")
          [] name = "preclin_mr_all" -> modality("Pre-clinical", "MR", "All regions")
          [] name = "clin_ct_ribs" -> modality("Clinical", "CT", "Ribs")
          [] name = "clin_ct_muscles" -> modality("Clinical", "CT", "Muscles")
          [] name = "clin_ct_peripheral_bones" -> modality("Clinical", "CT", "Peripheral Bones")
          [] name = "clin_ct_fat" -> modality("Clinical", "CT", "Fat")
          [] name = "clin_ct_vertebrae" -> modality("Clinical", "CT", "Vertebrae")
          [] name = "clin_ct_cardiac" -> modality("Clinical", "CT", "Cardiac")
          [] name = "clin_ct_digestive" -> modality("Clinical", "CT", "Digestive")
          [] name = "preclin_ct_legs" -> modality("Pre-clinical", "CT", "Legs")
          [] name = "clin_ct_all_bones_v1" -> modality("Clinical", "CT", "All bones")
          [] name = "clin_ct_PUMA" -> modality("Clinical", "CT", "PUMA tissues")
          [] name = "clin_pt_fdg_brain_v1" -> modality("Clinical", "PT", "Brain regions")
          [] name = "clin_ct_ALPACA" -> modality("Clinical", "CT", "ALPACA tissues")
          [] name = "clin_ct_PUMA4" -> modality("Clinical", "CT", "PUMA tissues")]

\* The if/elif chain of map_model_name_to_task_number, first match first; <<>>: no match.
task_number(model_name) ==
    IF model_name = "clin_ct_lungs" THEN <<"333">>
    ELSE IF model_name = "clin_ct_organs" THEN <<"123">>
    ELSE IF model_name = "preclin_mr_all" THEN <<"234">>
    ELSE IF model_name = "clin_ct_body" THEN <<"001">>
    ELSE IF model_name = "clin_ct_ribs" THEN <<"444">>
    ELSE IF model_name = "clin_ct_muscles" THEN <<"555">>
    ELSE IF model_name = "clin_ct_peripheral_bones" THEN <<"666">>
    ELSE IF model_name = "clin_ct_fat" THEN <<"777">>
    ELSE IF model_name = "clin_ct_vertebrae" THEN <<"111">>
    ELSE IF model_name = "clin_ct_cardiac" THEN <<"888">>
    ELSE IF model_name = "clin_ct_digestive" THEN <<"999">>
    ELSE IF model_name = "preclin_ct_legs" THEN <<"256">>
    ELSE IF model_name = "clin_ct_all_bones_v1" THEN <<"600">>
    ELSE IF model_name = "clin_ct_PUMA" THEN <<"002">>
    ELSE IF model_name = "clin_pt_fdg_brain_v1" THEN <<"100">>
    ELSE IF model_name = "clin_ct_ALPACA" THEN <<"080">>
    ELSE IF model_name = "clin_ct_PUMA4" THEN <<"003">>
    ELSE <<>>

\* The names looked up: every model of the registry, and names that are not in it.
AbsentNames == {"clin_ct_unknown", "clin_ct_Lungs", ""}
LookupNames == modality_names \cup AbsentNames

\* logging.basicConfig(): a StreamHandler on what sys.stderr is at the time.
basic_config(root) ==
    IF Len(root.handlers) = 0
    THEN [root EXCEPT !.handlers = <<[kind |-> "StreamHandler", stream |-> stderr]>>]
    ELSE root

\* What expected_modality returns: the model's dict with "Model name" set, or the
\* dict with the key "Error" for a name that is not in models.
expected_modality_result(model_name) ==
    IF model_name \in DOMAIN modality_models
    THEN [outcome |-> "return", error |-> NoError, logged |-> 0,
          value |-> {kv \in modality_models[model_name] : kv[1] # "Model name"}
                        \cup {<<"Model name", model_name>>}]
    ELSE [outcome |-> "return", error |-> NoError, logged |-> 1,
          value |-> {<<"Error", "Requested model is not available. Please check the model name.">>}]

\* expected_modality of moosez/resources.py; logging.error goes to the root logger,
\* which basicConfig sets up on first use.
expected_modality(model_name) ==
    LET r == expected_modality_result(model_name)
        root == IF r.logged > 0 THEN basic_config(rootlog) ELSE rootlog
    IN
    /\ r.logged > 0 => room(Len(root.handlers))
    /\ rootlog' = root
    /\ fs' = IF r.logged > 0 THEN emit_record(fs, root.handlers, 1) ELSE fs
    /\ registry' = registry
    /\ ret' = [op |-> "expected_modality", session |-> "none", outcome |-> r.outcome,
               error |-> r.error, model_name |-> model_name, value |-> r.value]
    /\ UNCHANGED <<session, called, proclog, clock, stdout, stderr, scopes, observed>>

\* map_model_name_to_task_number with a task number for the names it does not know.
map_model_name_to_task_number_result_default(model_name) ==
    LET found == task_number(model_name)
    IN [outcome |-> "return", error |-> NoError,
        value |-> IF found # <<>> THEN found ELSE <<"000">>]

\* What map_model_name_to_task_number returns or raises.
map_model_name_to_task_number_result(model_name) ==
    LET found == task_number(model_name)
    IN IF found # <<>>
       THEN [outcome |-> "return", error |-> NoError, value |-> found]
       ELSE [outcome |-> "raise", error |-> "Exception", value |-> <<>>]

\* map_model_name_to_task_number of moosez/resources.py
map_model_name_to_task_number(model_name) ==
    LET r == map_model_name_to_task_number_result(model_name)
    IN
    /\ registry' = registry
    /\ ret' = [op |-> "map_model_name_to_task_number", session |-> "none",
               outcome |-> r.outcome, error |-> r.error, model_name |-> model_name,
               value |-> r.value]
    /\ UNCHANGED <<session, called, proclog, fs, clock, stdout, stderr, scopes, observed>>
    /\ UNCHANGED rootlog

----------------------------------------------------------------------------
Init ==
    /\ session = [s \in Sessions |-> unmade]
    /\ called = [s \in Sessions |-> FALSE]
    /\ proclog = [level |-> "NOTSET", propagate |-> TRUE, handlers |-> <<>>]
    /\ fs = [p \in {devnull, tty_out, tty_err} |-> 0]
    /\ clock = 0
    /\ stdout = console_stdout
    /\ stderr = console_stderr
    /\ scopes = <<>>
    /\ observed = <<>>
    /\ registry = [AVAILABLE_MODELS |-> AVAILABLE_MODELS, MODELS |-> MODELS]
    /\ rootlog = [handlers |-> <<>>]
    /\ ret = [op |-> "none", session |-> "none", outcome |-> "return"]

\* Sessions and their log: any number of OutputManager objects in one process.
Next ==
    \/ \E s \in Sessions, vc \in BOOLEAN, vl \in BOOLEAN : OutputManager(s, vc, vl)
    \/ \E s \in Sessions, d \in LogDirs : configure_logging(s, d)
    \/ \E s \in Sessions : log_update(s)
    \/ Tick

Spec == Init /\ [][Next]_vars

\* The session the redirection is followed on.
RedirectSessions == {"s1"}

\* One session, its log and the scopes of manage_nnUNet_output around a block, all
\* within one minute of the clock.
NextRedirect ==
    \/ \E s \in RedirectSessions, vc \in BOOLEAN, vl \in BOOLEAN : OutputManager(s, vc, vl)
    \/ \E s \in RedirectSessions, d \in LogDirs : configure_logging(s, d)
    \/ \E s \in RedirectSessions : log_update(s)
    \/ \E s \in RedirectSessions : manage_nnUNet_output(s)
    \/ \E which \in {"stdout", "stderr"} : block_print(which)
    \/ \E which \in {"stdout", "stderr"} : block_rebind(which)
    \/ \E exc \in BlockErrors \cup {NoError} : leave_scope(exc)

SpecRedirect == Init /\ [][NextRedirect]_vars

\* The console of the sessions, and check_device reporting through it.
NextConsole ==
    \/ \E s \in Sessions, vc \in BOOLEAN, vl \in BOOLEAN : OutputManager(s, vc, vl)
    \/ \E s \in Sessions, text \in Contents : console_update(s, text)
    \/ \E s \in Sessions : display_logo(s)
    \/ \E s \in Sessions : display_authors(s)
    \/ \E s \in Sessions : display_doi(s)
    \/ \E s \in Sessions \cup {DefaultManager}, env \in Envs : check_device(s, env)
    \/ \E env \in Envs : resources_check_device(env)

SpecConsole == Init /\ [][NextConsole]_vars

\* create_table on every header list and styles argument.
NextTable ==
    \/ \E s \in Sessions, vc \in BOOLEAN, vl \in BOOLEAN : OutputManager(s, vc, vl)
    \/ \E s \in Sessions, header \in seqs_upto(HeaderNames, MaxCols), styles \in StylesArgs :
            create_table(s, header, styles)

SpecTable == Init /\ [][NextTable]_vars

\* The lookups of the registry on every name.
NextRegistry ==
    \/ \E name \in LookupNames : expected_modality(name)
    \/ \E name \in LookupNames : map_model_name_to_task_number(name)

SpecRegistry == Init /\ [][NextRegistry]_vars

\* The spinner of the sessions, its operations in any order.
NextSpinner ==
    \/ \E s \in Sessions, vc \in BOOLEAN, vl \in BOOLEAN : OutputManager(s, vc, vl)
    \/ \E s \in Sessions, text \in SpinnerTexts : spinner_start(s, text)
    \/ \E s \in Sessions, text \in SpinnerTexts : spinner_update(s, text)
    \/ \E s \in Sessions, text \in SpinnerTexts : spinner_succeed(s, text)
    \/ \E s \in Sessions : spinner_stop(s)

SpecSpinner == Init /\ [][NextSpinner]_vars
----------------------------------------------------------------------------
(* The claims. *)

FileHandlers == {i \in 1..Len(proclog.handlers) : proclog.handlers[i].kind = "FileHandler"}
LogFiles == {p \in DOMAIN fs : p.kind = "log"}
HandlerPaths == {proclog.handlers[i].stream.path : i \in 1..Len(proclog.handlers)}

\* C1: when a manage_nnUNet_output scope has been left, sys.stdout and sys.stderr are
\* what they were when it was entered, whatever the session's mode and whatever the
\* block did, and a block that raised has its own error leave the scope, a block that
\* returned none.
C1_StreamsRestored ==
    ret.op = "leave" =>
        /\ stdout = ret.before.stdout
        /\ stderr = ret.before.stderr
        /\ ret.error = ret.raised
        /\ ret.outcome = (IF ret.raised = NoError THEN "return" ELSE "raise")

\* C1: a scope of a configured verbose-logging session, entered inside another scope
\* (the streams were redirected already), has been left by a block that raised.
C1_Witness ==
    /\ ret.op = "leave"
    /\ ret.raised = "RuntimeError"
    /\ ret.target.path.kind = "nnUNet"
    /\ ret.before.stdout # console_stdout
    /\ Len(scopes) > 0

\* C2: after a second or later configure_logging call on a session with logging
\* enabled has returned, exactly one file handler is attached and exactly one log
\* file has been produced.
C2_OneHandlerAfterTwoCalls ==
    (/\ ret.op = "configure_logging"
     /\ ret.again
     /\ ret.outcome = "return"
     /\ session[ret.session].verbose_log)
        => Cardinality(FileHandlers) = 1 /\ Cardinality(LogFiles) = 1

\* C3: with CUDA available with N devices check_device returns ("cuda", N) whatever
\* the MPS flags are, and torch.backends.mps.is_available is not called.
C3_CudaFirst ==
    (ret.op = "check_device" /\ ret.env.cuda_available) =>
        /\ ret.backend = "cuda"
        /\ ret.device_count = Some(ret.env.device_count)
        /\ \A i \in 1..Len(ret.consulted) : ret.consulted[i] # "mps.is_available"

\* C3: check_device has run with CUDA available, two devices, and MPS available too.
C3_Witness ==
    /\ ret.op = "check_device"
    /\ ret.env.cuda_available
    /\ ret.env.device_count = 2
    /\ ret.env.mps_available
    /\ ret.backend = "cuda"

\* C4: both check_device functions return in every environment, with a backend, and
\* with neither CUDA nor MPS available the backend is "cpu" and there is no device
\* count, whether MPS was built or not.
C4_CpuFallback ==
    ret.op \in {"check_device", "resources.check_device"} =>
        /\ ret.outcome = "return"
        /\ ret.backend \in {"cuda", "mps", "cpu"}
        /\ (~ret.env.cuda_available /\ ~ret.env.mps_available) =>
                ret.backend = "cpu" /\ ret.device_count = None

\* C4: check_device has run where MPS is built and neither CUDA nor MPS is available.
C4_Witness ==
    /\ ret.op = "check_device"
    /\ ~ret.env.cuda_available
    /\ ~ret.env.mps_available
    /\ ret.env.mps_built
    /\ ret.backend = "cpu"

\* C5: create_table given styles of another length than header raises.
C5_MismatchRaises ==
    (/\ ret.op = "create_table"
     /\ ret.styles.given
     /\ Len(ret.styles.list) # Len(ret.header))
        => ret.outcome = "raise"

\* C6: a call on a manager with console verbosity off (console_update with a str or
\* a renderable, the banners, check_device) returns and has written nothing.
C6_QuietConsoleSilent ==
    (/\ ret.op \in {"console_update", "display_logo", "display_authors", "display_doi",
                    "check_device"}
     /\ ~manager(ret.session).verbose_console)
        => ret.outcome = "return" /\ ret.written = 0

\* C6: display_doi has run on a quiet session after a verbose session had written.
C6_Witness ==
    /\ ret.op = "display_doi"
    /\ ~session[ret.session].verbose_console
    /\ ret.console_updates = 6
    /\ total_lines > 0

\* C7: a log_update step appends a record only on a session with logging enabled on
\* which configure_logging has been called; on any other session it changes nothing.
C7_LogUpdateOnlyWhenConfigured ==
    [][ret'.op = "log_update" =>
            LET s == ret'.session
            IN /\ fs' # fs => session[s].verbose_log /\ called[s]
               /\ ~(session[s].verbose_log /\ called[s]) =>
                    UNCHANGED <<session, called, proclog, fs, clock, stdout, stderr,
                                scopes, observed, registry, rootlog>>]_vars

\* C7: log_update has run on a configured session and the handler's file has a record,
\* while the other session has logging enabled and is not configured.
C7_Witness ==
    /\ ret.op = "log_update"
    /\ called[ret.session]
    /\ \E p \in HandlerPaths : fs[p] > 0
    /\ \E s \in Sessions : session[s].verbose_log /\ ~called[s]

\* C8: in an open scope the redirect target is os.devnull opened 'w' for a quiet
\* session, and for a verbose-logging session it is opened 'a' on the file the log
\* handler writes to.
C8_SinkIsHandlerFile ==
    \A i \in 1..Len(scopes) :
        IF ~session[scopes[i].session].verbose_log
        THEN scopes[i].target = handle(devnull, "w")
        ELSE /\ scopes[i].target.mode = "a"
             /\ scopes[i].target.path \in HandlerPaths

\* C8, amended: in an open scope the redirect target is os.devnull opened 'w' for a
\* quiet session; for a verbose-logging session it is opened 'a' on the session's
\* nnunet_log_filename: os.devnull when configure_logging had not been called on the
\* session before the scope was entered, else the session's nnUNet log file, which
\* is never the file the log handler writes to.
C8_SinkIsNnunetLog ==
    \A i \in 1..Len(scopes) :
        IF ~session[scopes[i].session].verbose_log
        THEN scopes[i].target = handle(devnull, "w")
        ELSE /\ scopes[i].target.mode = "a"
             /\ scopes[i].target.path \notin HandlerPaths
             /\ IF observed[i].configured
                THEN /\ scopes[i].target.path.kind = "nnUNet"
                     /\ scopes[i].target.path = session[scopes[i].session].nnunet_log_filename
                ELSE scopes[i].target.path = devnull

\* C8: a verbose-logging session has two scopes open, the outer one entered before
\* configure_logging and the inner one after it, and its handler is attached.
C8_Witness ==
    /\ Len(scopes) = 2
    /\ session[scopes[1].session].verbose_log
    /\ scopes[1].target.path = devnull
    /\ scopes[2].target.path.kind = "nnUNet"
    /\ Cardinality(FileHandlers) = 1

\* C9: check_device calls console_update exactly once, in every environment.
C9_OneStatusLine ==
    ret.op = "check_device" =>
        /\ ret.console_updates = 1
        /\ Len(ret.messages) = 1
        /\ ret.written = (IF manager(ret.session).verbose_console THEN 1 ELSE 0)

\* C9: check_device has run on a verbose session where MPS is built and nothing is
\* available, and its line was written.
C9_Witness ==
    /\ ret.op = "check_device"
    /\ ~ret.env.cuda_available
    /\ ~ret.env.mps_available
    /\ ret.env.mps_built
    /\ ret.written = 1

RegistryAtImport == [AVAILABLE_MODELS |-> AVAILABLE_MODELS, MODELS |-> MODELS]

\* C10: a lookup of a name that is not in the model table raises, and the registry
\* tables are as before.
C10_AbsentNameRaises ==
    /\ registry = RegistryAtImport
    /\ (/\ ret.op \in {"expected_modality", "map_model_name_to_task_number"}
        /\ ret.model_name \notin DOMAIN registry.MODELS)
            => ret.outcome = "raise"

\* C10, amended: for a name that is not in the model table
\* map_model_name_to_task_number raises (an Exception) and returns nothing, while
\* expected_modality returns a dict whose one key is "Error"; neither changes the
\* registry tables.
C10_AbsentNameRaisesOrErrorDict ==
    /\ registry = RegistryAtImport
    /\ (ret.op = "map_model_name_to_task_number"
            /\ ret.model_name \notin DOMAIN registry.MODELS)
            => ret.outcome = "raise" /\ ret.error = "Exception" /\ ret.value = <<>>
    /\ (ret.op = "expected_modality" /\ ret.model_name \notin DOMAIN registry.MODELS)
            => /\ ret.outcome = "return"
               /\ {kv[1] : kv \in ret.value} = {"Error"}

\* C10: both lookups have been made on a name that is not in the table: the second
\* raised after the first had logged its error.
C10_Witness ==
    /\ ret.op = "map_model_name_to_task_number"
    /\ ret.model_name = "clin_ct_unknown"
    /\ ret.outcome = "raise"
    /\ Len(rootlog.handlers) = 1
    /\ fs[tty_err] > 0
SpinnerOps == {"spinner_start", "spinner_update", "spinner_succeed", "spinner_stop"}

\* C11: on a session with console verbosity off the spinner is as it was made (no
\* text, not spinning) whatever spinner operations have been called and in whatever
\* order, and each such call returns with the spinner as it found it.
C11_QuietSpinnerInert ==
    /\ \A s \in Sessions :
            (session[s].made /\ ~session[s].verbose_console) =>
                session[s].spinner = halo(FALSE)
    /\ (ret.op \in SpinnerOps /\ ~session[ret.session].verbose_console) =>
            /\ ret.outcome = "return"
            /\ session[ret.session].spinner = ret.before
            /\ fs[tty_out] = 0 \/ \E s \in Sessions : session[s].verbose_console

\* C11: spinner_succeed with a text has been called on a quiet session that was never
\* started, while the other session's spinner is spinning.
C11_Witness ==
    /\ ret.op = "spinner_succeed"
    /\ ret.text = "done"
    /\ ~session[ret.session].verbose_console
    /\ \E s \in Sessions : session[s].spinner.running
\* C12: after a configure_logging call whose open of the log file failed, the error
\* has reached the caller and the session is unconfigured: no logger is recorded, the
\* redirect target path is os.devnull, and the next call will not return early.
C12_FailedOpenLeavesUnconfigured ==
    (ret.op = "configure_logging" /\ ret.outcome = "raise") =>
        /\ ret.error # NoError
        /\ session[ret.session].logger = "None"
        /\ session[ret.session].nnunet_log_filename = devnull
        /\ ~configure_returns_early(ret.session)
\* C13: with CUDA unavailable check_device's result follows from the two MPS flags,
\* first match first: MPS available gives ("mps", None); else MPS not built gives
\* ("cpu", None) with the note on the build; else ("cpu", None) with the note that
\* nothing is available; the two CPU notes differ.
C13_MpsFlagsDecide ==
    (ret.op = "check_device" /\ ~ret.env.cuda_available) =>
        /\ ret.device_count = None
        /\ ret.env.mps_available =>
                ret.backend = "mps" /\ ret.messages = <<"mps_available">>
        /\ (~ret.env.mps_available /\ ~ret.env.mps_built) =>
                ret.backend = "cpu" /\ ret.messages = <<"mps_not_built">>
        /\ (~ret.env.mps_available /\ ret.env.mps_built) =>
                ret.backend = "cpu" /\ ret.messages = <<"cuda_mps_not_available">>

\* C13: check_device() on its default manager has given the note that nothing is
\* available: MPS is built and not available, CUDA is not available.
C13_Witness ==
    /\ ret.op = "check_device"
    /\ ret.session = DefaultManager
    /\ ret.env = [cuda_available |-> FALSE, device_count |-> 0,
                  mps_available |-> FALSE, mps_built |-> TRUE]
    /\ ret.backend = "cpu"
    /\ ret.messages = <<"cuda_mps_not_available">>

\* C13: check_device has returned "mps" where MPS is available, built or not.
C13_WitnessMps ==
    /\ ret.op = "check_device"
    /\ ~ret.env.cuda_available
    /\ ret.env.mps_available
    /\ ~ret.env.mps_built
    /\ ret.backend = "mps"

\* C13: check_device has given the note on the build.
C13_WitnessNotBuilt ==
    /\ ret.op = "check_device"
    /\ ~ret.env.cuda_available
    /\ ret.backend = "cpu"
    /\ ret.messages = <<"mps_not_built">>
\* C14: the logger 'moosez-v<VERSION>' is one per process, so it never carries more
\* than one file handler however the sessions' configure_logging calls interleave; a
\* logging-enabled session that configures when the handler is there gets the logger
\* and its own redirect target path, opens no file and attaches no handler; and the
\* records of log_update, of whichever session, go to the one handler's file.
C14_OneHandlerPerProcess ==
    /\ [](Len(proclog.handlers) <= 1 /\ Cardinality(LogFiles) <= 1
            /\ HandlerPaths \subseteq LogFiles)
    /\ [][(ret'.op = "configure_logging" /\ session' # session
                /\ Len(proclog.handlers) = 1) =>
            LET s == ret'.session
            IN /\ session[s].verbose_log
               /\ session'[s].logger = LoggerName
               /\ session'[s].nnunet_log_filename.kind = "nnUNet"
               /\ session'[s].nnunet_log_filename.ts = timestamp(clock)
               /\ proclog'.handlers = proclog.handlers
               /\ fs' = fs
               /\ ret'.outcome = "return"]_vars
    /\ [][(ret'.op = "log_update" /\ fs' # fs) =>
            /\ Len(proclog.handlers) = 1
            /\ proclog' = proclog
            /\ fs' = [fs EXCEPT ![proclog.handlers[1].stream.path] = @ + 1]]_vars

\* C14: both sessions are configured, in different directories and minutes; the one
\* whose directory is not that of the handler's file has called log_update and the
\* record is in the handler's file, the only log file there is.
C14_Witness ==
    /\ ret.op = "log_update"
    /\ Len(proclog.handlers) = 1
    /\ fs[proclog.handlers[1].stream.path] > 0
    /\ session[ret.session].logger = LoggerName
    /\ session[ret.session].nnunet_log_filename.dir # proclog.handlers[1].stream.path.dir
    /\ session[ret.session].nnunet_log_filename.ts # proclog.handlers[1].stream.path.ts
    /\ \E s \in Sessions \ {ret.session} :
            /\ session[s].nnunet_log_filename.dir = proclog.handlers[1].stream.path.dir
            /\ session[s].nnunet_log_filename.ts = proclog.handlers[1].stream.path.ts
====
